---- MODULE Spec2Model ----
(***************************************************************************)
(* Availability aggregation and free-slot engine of the calendar           *)
(* screenshot application.                                                 *)
(*                                                                         *)
(* Instants are integers: minutes since Monday 2025-03-17 00:00 UTC.       *)
(* The module holds state machines that share no state:                    *)
(*   SpecSlots    find_available_slots   (services/availability.py)        *)
(*   SpecAvail    check_availability     (services/availability.py,        *)
(*                                        utils/date_utils.py)             *)
(*   SpecAgg      the event gathering of the calendar routes               *)
(*                (routes/calendar_routes.py); SpecAggFair adds fairness   *)
(*   SpecTs       the timestamp readers (services/thunderbird_calendar.py, *)
(*                utils/date_utils.py, services/google_calendar.py)        *)
(*   SpecTb       the event construction of the Thunderbird reader         *)
(*                (routes/calendar_routes.py)                              *)
(*   SpecUp       upload_screenshot      (routes/screenshot_routes.py)     *)
(*   SpecSuggest  suggest_times: parse_date_range, then                    *)
(*                find_available_slots   (routes/calendar_routes.py)       *)
(* Each specification starts its own machine and leaves the others idle.   *)
(***************************************************************************)
EXTENDS Integers, Sequences, FiniteSets, TLC

VARIABLES
    \* ---- find_available_slots ----
    fas_pc,           \* "idle" | "days" | "scan" | "done"
    start_date,       \* range start, after replace(hour=start_hour)
    end_date,         \* range end, after replace(hour=end_hour)
    duration,         \* duration_minutes
    start_hour,
    end_hour,
    fas_events,       \* the events argument, as <<start, end>> pairs
    busy_periods,     \* fas_events sorted by start (stable)
    available_slots,  \* the result list
    current_date,
    day_start,
    day_end,
    slot_start,
    slot_end,
    \* ---- check_availability ----
    ca_pc,                 \* "idle" | "loop" | "done" | "raised"
    time_slots,            \* the time_slots argument
    ca_events,             \* the events argument
    ca_i,                  \* index of the next slot of the for loop
    availability_results,  \* the result mapping, slot key -> entry
    \* ---- event gathering of the calendar routes ----
    agg_pc,                \* "idle" | "start" | "gather" | "finish" | "done"
    route,                 \* "events" | "availability" | "suggest"
    request_ok,            \* the request carries what the route parses
    selected_calendars,    \* session['selected_calendars'], later the loop's list
    google_token,          \* 'google_token' in session
    microsoft_token,       \* 'microsoft_token' in session
    is_darwin,             \* platform.system() == 'Darwin'
    broken,                \* the sources whose backend call fails
    unresponsive,          \* the providers whose backend never answers
    req_start,             \* start of the time range handed to the sources
    req_end,               \* end of that range
    req_duration,          \* duration_minutes of a suggest request
    agg_i,                 \* index of the next calendar of the for loop
    all_events,            \* the merged event list
    agg_status,            \* 0 while running, then the HTTP status
    agg_error,             \* the exception that left the handler, or "none"
    agg_response,          \* the events of the JSON body of /events
    \* ---- timestamp conversions ----
    ts_microseconds,       \* an instant as Thunderbird stores it
    ts_text_z,             \* the same instant as ISO-8601 text ending in Z
    ts_text_offset,        \* the same instant as ISO-8601 text with an offset
    ts_done,               \* the conversions that have run
    start_thunderbird,     \* microseconds_to_datetime(ts_microseconds)
    start_slot,            \* parse_time_slot of the two texts
    start_provider,        \* the provider parser on the two texts
    \* ---- event construction of the Thunderbird reader ----
    tb_pc,                 \* "idle" | "loop" | "done"
    tb_rows,               \* the rows the query fetched
    tb_i,                  \* index of the next row of the for loop
    tb_results,            \* the event dictionaries built so far
    \* ---- upload_screenshot ----
    up_pc,                 \* "idle" | "adjust" | "check" | "done"
    now_year,              \* datetime.now().year
    parsed_slots,          \* result['time_slots'] as the analysis returned them
    up_time_slots,         \* result['time_slots'] as the handler rewrites them
    thunderbird_events,    \* what the Thunderbird database holds for the range
    up_all_events,         \* all_events of the handler
    up_i,                  \* index of the next slot of the running for loop
    \* ---- suggest_times ----
    date_range,            \* data['date_range'] of the request
    \* ---- analyze_clipboard ----
    ac_pc,                 \* "idle" | "fetch" | "check" | "finish" | "done"
    ac_today,              \* datetime.now() at midnight
    is_suggestion,         \* result['is_suggestion']
    ac_time_slots,         \* result['time_slots']
    ac_calendar,           \* the events the selected calendar holds
    ac_all_events,         \* all_events of the handler
    ac_i,                  \* index of the next slot of the for loop
    suggested_slots,       \* what find_alternative_slots returned
    \* ---- clipboard monitor ----
    monitor_thread,        \* the global: 0 for None, else a thread
    is_monitoring,         \* the global flag
    cm_callers,            \* callers at each statement of start
    cm_threads,            \* position and locals of each monitor thread
    clipboard,             \* the image on the clipboard, "none" without
    cm_posted,             \* posts per thread of the clipboard content
    cm_last                \* the call made last

slotVars == <<fas_pc, start_date, end_date, duration, start_hour, end_hour,
              fas_events, busy_periods, available_slots, current_date,
              day_start, day_end, slot_start, slot_end>>

availVars == <<ca_pc, time_slots, ca_events, ca_i, availability_results>>

aggEnv == <<route, request_ok, google_token, microsoft_token, is_darwin,
            broken, unresponsive, req_start, req_end, req_duration>>

aggVars == <<agg_pc, selected_calendars, agg_i, all_events, agg_status,
             agg_error, agg_response, aggEnv>>

tsVars == <<ts_microseconds, ts_text_z, ts_text_offset, ts_done,
            start_thunderbird, start_slot, start_provider>>

tbVars == <<tb_pc, tb_rows, tb_i, tb_results>>

upVars == <<up_pc, now_year, parsed_slots, up_time_slots,
            thunderbird_events, up_all_events, up_i>>

sugVars == <<date_range>>

acVars == <<ac_pc, ac_today, is_suggestion, ac_time_slots, ac_calendar,
            ac_all_events, ac_i, suggested_slots>>

cmVars == <<monitor_thread, is_monitoring, cm_callers, cm_threads,
            clipboard, cm_posted, cm_last>>

vars == <<slotVars, availVars, aggVars, tsVars, tbVars, upVars, sugVars,
          acVars, cmVars>>

\* what the actions of one machine leave alone
OthersOfSlots ==
    UNCHANGED <<availVars, aggVars, tsVars, tbVars, upVars, sugVars,
                acVars, cmVars>>

OthersOfAvail ==
    UNCHANGED <<slotVars, aggVars, tsVars, tbVars, upVars, sugVars,
                acVars, cmVars>>

OthersOfAgg ==
    UNCHANGED <<slotVars, availVars, tsVars, tbVars, upVars, sugVars,
                acVars, cmVars>>

OthersOfTs ==
    UNCHANGED <<slotVars, availVars, aggVars, tbVars, upVars, sugVars,
                acVars, cmVars>>

OthersOfTb ==
    UNCHANGED <<slotVars, availVars, aggVars, tsVars, upVars, sugVars,
                acVars, cmVars>>

OthersOfAc ==
    UNCHANGED <<slotVars, availVars, aggVars, tsVars, tbVars, upVars,
                sugVars, cmVars>>

OthersOfCm ==
    UNCHANGED <<slotVars, availVars, aggVars, tsVars, tbVars, upVars,
                sugVars, acVars>>

OthersOfUp ==
    UNCHANGED <<slotVars, availVars, aggVars, tsVars, tbVars, sugVars,
                acVars, cmVars>>

----------------------------------------------------------------------------
\* Bounds of the model

MaxEvents == 2

MaxSlotsOut == 24

MaxTimeSlots == 3

MaxCalendars == 2

\* longest list of rows the Thunderbird query returns
MaxRows == 2

\* longest list of time slots read from a screenshot
MaxUploadSlots == 2

\* longest list of time slots read from a clipboard image
MaxClipboardSlots == 2

\* Thread objects the clipboard monitor creates, and with it the calls of
\* start_clipboard_monitor_thread that can run at once
MaxThreads == 2

\* posts of one thread for one clipboard content that are told apart
MaxPostCount == 2

----------------------------------------------------------------------------
\* Calendar arithmetic

MinutesPerDay == 1440

Day(d) == d * MinutesPerDay

\* datetime.replace(hour=h, minute=0, second=0, microsecond=0)
ReplaceHour(t, h) == (t \div MinutesPerDay) * MinutesPerDay + h * 60

\* datetime.weekday(): 0 = Monday ... 6 = Sunday
weekday(t) == (t \div MinutesPerDay) % 7

\* t + timedelta(days=1), then replace(hour=h, ...)
NextDay(t, h) == ReplaceHour(t + MinutesPerDay, h)

\* find_available_slots: slot_start < busy_end and slot_end > busy_start
Overlaps_StartInside(s, e, bs, be) == bs >= s /\ bs < e

Overlaps(s, e, bs, be) == s < be /\ e > bs

----------------------------------------------------------------------------
\* find_available_slots

RECURSIVE InsertByStart(_, _)
InsertByStart(sorted, p) ==
    IF sorted = <<>> THEN <<p>>
    ELSE IF sorted[Len(sorted)][1] <= p[1] THEN Append(sorted, p)
    ELSE Append(InsertByStart(SubSeq(sorted, 1, Len(sorted) - 1), p),
                sorted[Len(sorted)])

RECURSIVE SortByStart(_)
\* list.sort(key=lambda x: x[0]): stable, ascending by start
SortByStart(s) ==
    IF s = <<>> THEN <<>>
    ELSE InsertByStart(SortByStart(SubSeq(s, 1, Len(s) - 1)), s[Len(s)])

\* index of the first busy period the candidate overlaps, 0 when none
FirstConflict(bp, s, e) ==
    IF \E i \in 1..Len(bp) : Overlaps(s, e, bp[i][1], bp[i][2])
    THEN CHOOSE i \in 1..Len(bp) :
            /\ Overlaps(s, e, bp[i][1], bp[i][2])
            /\ \A j \in 1..(i - 1) : ~Overlaps(s, e, bp[j][1], bp[j][2])
    ELSE 0

\* available_slots.append({'start': ..., 'end': ...})
EmitSlot_Prepend(slots, s, e) == <<[start |-> s, end |-> e]>> \o slots

EmitSlot(slots, s, e) == Append(slots, [start |-> s, end |-> e])

\* "Add 30-minute increments": if slot_start == slot_end: slot_start += 30
HalfHourStep(s, e) == IF s = e THEN s + 30 ELSE s

DurationChoices == {-60, -30, -15, 0, 30, 60, 90}

HourChoices == {<<9, 17>>, <<9, 11>>, <<17, 9>>, <<9, 9>>}

\* Mon 17 Mar, Tue 18 Mar, Fri 21 Mar, Sat 22 Mar, Mon 24 Mar
RangeChoices ==
    { <<Day(0) + 615, Day(0) + 615>>, <<Day(0), Day(1) + 1380>>,
      <<Day(4) + 30, Day(7)>>, <<Day(5), Day(6) + 600>>,
      <<Day(1), Day(0)>> }

EventChoices ==
    { <<Day(0) + 720, Day(0) + 780>>,     \* Mon 12:00-13:00
      <<Day(0) + 510, Day(0) + 555>>,     \* Mon 08:30-09:15
      <<Day(0) + 600, Day(0) + 600>>,     \* Mon 10:00, zero length
      <<Day(0) + 960, Day(1) + 600>>,     \* Mon 16:00 - Tue 10:00
      <<Day(4) + 540, Day(4) + 600>>,     \* Fri 09:00-10:00
      <<Day(0) + 360, Day(0) + 1200>> }   \* Mon 06:00-20:00

RECURSIVE SeqsUpTo(_, _)
SeqsUpTo(S, n) ==
    IF n = 0 THEN {<<>>}
    ELSE LET shorter == SeqsUpTo(S, n - 1)
         IN  shorter \cup {Append(q, x) : q \in shorter, x \in S}

FAS_Start ==
    /\ \E r \in RangeChoices, h \in HourChoices :
          /\ start_hour = h[1]
          /\ end_hour = h[2]
          /\ start_date = ReplaceHour(r[1], h[1])
          /\ end_date = ReplaceHour(r[2], h[2])
    /\ duration \in DurationChoices
    /\ fas_events \in SeqsUpTo(EventChoices, MaxEvents)
    /\ busy_periods = SortByStart(fas_events)
    /\ available_slots = <<>>
    /\ current_date = start_date
    /\ day_start = 0
    /\ day_end = 0
    /\ slot_start = 0
    /\ slot_end = 0
    /\ fas_pc = "days"

FAS_Idle ==
    /\ fas_pc = "idle"
    /\ start_date = 0
    /\ end_date = 0
    /\ duration = 0
    /\ start_hour = 0
    /\ end_hour = 0
    /\ fas_events = <<>>
    /\ busy_periods = <<>>
    /\ available_slots = <<>>
    /\ current_date = 0
    /\ day_start = 0
    /\ day_end = 0
    /\ slot_start = 0
    /\ slot_end = 0

\* outer loop, weekend branch
FAS_SkipWeekend ==
    /\ fas_pc = "days"
    /\ current_date <= end_date
    /\ weekday(current_date) >= 5
    /\ current_date' = NextDay(current_date, start_hour)
    /\ UNCHANGED <<fas_pc, start_date, end_date, duration, start_hour,
                   end_hour, fas_events, busy_periods, available_slots,
                   day_start, day_end, slot_start, slot_end>>
    /\ OthersOfSlots

\* outer loop, working day: set the day's window and the cursor
FAS_BeginDay ==
    /\ fas_pc = "days"
    /\ current_date <= end_date
    /\ weekday(current_date) < 5
    /\ day_start' = ReplaceHour(current_date, start_hour)
    /\ day_end' = ReplaceHour(current_date, end_hour)
    /\ slot_start' = day_start'
    /\ fas_pc' = "scan"
    /\ UNCHANGED <<start_date, end_date, duration, start_hour, end_hour,
                   fas_events, busy_periods, available_slots, current_date,
                   slot_end>>
    /\ OthersOfSlots

\* inner loop iteration whose candidate overlaps a busy period
FAS_ScanConflict ==
    /\ fas_pc = "scan"
    /\ slot_start + duration <= day_end
    /\ LET e == slot_start + duration
           i == FirstConflict(busy_periods, slot_start, e)
       IN  /\ i # 0
           /\ slot_end' = e
           /\ slot_start' = HalfHourStep(busy_periods[i][2], e)
    /\ UNCHANGED <<fas_pc, start_date, end_date, duration, start_hour,
                   end_hour, fas_events, busy_periods, available_slots,
                   current_date, day_start, day_end>>
    /\ OthersOfSlots

\* inner loop iteration whose candidate is free
FAS_ScanEmit ==
    /\ fas_pc = "scan"
    /\ slot_start + duration <= day_end
    /\ Len(available_slots) < MaxSlotsOut
    /\ LET e == slot_start + duration
       IN  /\ FirstConflict(busy_periods, slot_start, e) = 0
           /\ slot_end' = e
           /\ available_slots' = EmitSlot(available_slots, slot_start, e)
           /\ slot_start' = HalfHourStep(e, e)
    /\ UNCHANGED <<fas_pc, start_date, end_date, duration, start_hour,
                   end_hour, fas_events, busy_periods, current_date,
                   day_start, day_end>>
    /\ OthersOfSlots

\* inner loop exit: move to the next day
FAS_EndDay ==
    /\ fas_pc = "scan"
    /\ ~(slot_start + duration <= day_end)
    /\ current_date' = NextDay(current_date, start_hour)
    /\ fas_pc' = "days"
    /\ UNCHANGED <<start_date, end_date, duration, start_hour, end_hour,
                   fas_events, busy_periods, available_slots, day_start,
                   day_end, slot_start, slot_end>>
    /\ OthersOfSlots

\* outer loop exit: return available_slots
FAS_Return ==
    /\ fas_pc = "days"
    /\ ~(current_date <= end_date)
    /\ fas_pc' = "done"
    /\ UNCHANGED <<start_date, end_date, duration, start_hour, end_hour,
                   fas_events, busy_periods, available_slots, current_date,
                   day_start, day_end, slot_start, slot_end>>
    /\ OthersOfSlots

FAS_Next ==
    \/ FAS_SkipWeekend
    \/ FAS_BeginDay
    \/ FAS_ScanConflict
    \/ FAS_ScanEmit
    \/ FAS_EndDay
    \/ FAS_Return

----------------------------------------------------------------------------
\* parse_time_slot (utils/date_utils.py)
\*
\* A time string is a token [kind, wall, off]:
\*   "absent"  the key is not in the slot dictionary
\*   "empty"   the value is '' or None
\*   "bad"     a string dateutil cannot parse (ValueError)
\*   "z"       ISO-8601 ending in Z, wall clock `wall`
\*   "offset"  ISO-8601 with a UTC offset of `off` minutes
\*   "naive"   ISO-8601 without offset

Tok(kind, wall, off) == [kind |-> kind, wall |-> wall, off |-> off]

Absent == Tok("absent", 0, 0)

Unparsable == Tok("bad", 0, 0)

IsoZ(t) == Tok("z", t, 0)

\* parser.parse(text) followed by pytz.UTC.localize for naive values: the
\* instant the string denotes
ParseInstant(tok) ==
    IF tok.kind = "offset" THEN tok.wall - tok.off ELSE tok.wall

\* key present and truthy
HasValue(tok) == tok.kind \notin {"absent", "empty"}

NoneNone == [ok |-> FALSE, start |-> 0, end |-> 0]

\* returns (start_time, end_time), or (None, None) as ok = FALSE
parse_time_slot(slot) ==
    IF ~HasValue(slot.start) THEN NoneNone
    ELSE IF slot.start.kind = "bad" THEN NoneNone
    ELSE IF ~HasValue(slot.end)
         THEN [ok |-> TRUE, start |-> ParseInstant(slot.start),
               end |-> ParseInstant(slot.start) + 60]
    ELSE IF slot.end.kind = "bad" THEN NoneNone
    ELSE [ok |-> TRUE, start |-> ParseInstant(slot.start),
          end |-> ParseInstant(slot.end)]

----------------------------------------------------------------------------
\* check_availability (services/availability.py)

\* slot.get(key, 'Unknown') as it appears in the result key
KeyPart(tok) == IF tok.kind = "absent" THEN Tok("Unknown", 0, 0) ELSE tok

\* f"{slot['start']} - {slot.get('end', 'Unknown')}"
SlotKey(slot) == <<KeyPart(slot.start), KeyPart(slot.end)>>

\* the overlap test: slot_start < event_end and slot_end > event_start
SlotConflicts_Closed(ss, se, es, ee) == ss <= ee /\ se >= es

SlotConflicts(ss, se, es, ee) == ss < ee /\ se > es

\* the record appended to conflicts for one event
ConflictOf(event) ==
    [title |-> event.title, calendar_id |-> event.calendar_id,
     provider |-> event.provider, start |-> event.start, end |-> event.end]

RECURSIVE FindConflicts(_, _, _)
\* the inner for loop: the conflicting events, in the order of the list
FindConflicts(ss, se, events) ==
    IF events = <<>> THEN <<>>
    ELSE LET rest == FindConflicts(ss, se, Tail(events))
             ev == Head(events)
         IN  IF SlotConflicts(ss, se, ev.start, ev.end)
             THEN <<ConflictOf(ev)>> \o rest
             ELSE rest

\* the entry stored for a slot that cannot be parsed
InvalidEntry ==
    [available |-> FALSE, conflicts |-> <<>>, error |-> TRUE,
     start |-> 0, end |-> 0]

\* the entry stored for a parsed slot
SlotEntry_NeverFree(conflicts, ss, se) ==
    [available |-> FALSE, conflicts |-> conflicts, error |-> FALSE,
     start |-> ss, end |-> se]

SlotEntry(conflicts, ss, se) ==
    [available |-> Len(conflicts) = 0, conflicts |-> conflicts,
     error |-> FALSE, start |-> ss, end |-> se]

\* availability_results[key] = entry
Store(results, key, entry) ==
    [k \in (DOMAIN results) \cup {key} |->
        IF k = key THEN entry ELSE results[k]]

\* an event whose start and end are ISO strings instead of datetimes, as
\* the route-level get_thunderbird_events builds them
HasStringTimes(event) == event.iso

Tue == Day(1)

SlotChoices ==
    { [start |-> IsoZ(Tue + 540), end |-> IsoZ(Tue + 600)],
      [start |-> IsoZ(Tue + 630), end |-> IsoZ(Tue + 690)],
      [start |-> Tok("offset", Tue + 690, 60), end |-> Absent],
      [start |-> Tok("naive", Tue + 660, 0), end |-> Tok("naive", Tue + 720, 0)],
      [start |-> Unparsable, end |-> IsoZ(Tue + 600)],
      [start |-> Absent, end |-> IsoZ(Tue + 600)],
      [start |-> IsoZ(Tue + 540), end |-> Unparsable],
      [start |-> IsoZ(Tue + 660), end |-> IsoZ(Tue + 600)],
      [start |-> IsoZ(Tue + 630), end |-> IsoZ(Tue + 630)] }

\* an event dictionary as the provider modules build it; iso tells that
\* start and end are ISO strings and not datetime objects
Ev(id, title, cal, prov, s, e, iso) ==
    [id |-> id, title |-> title, calendar_id |-> cal, provider |-> prov,
     start |-> s, end |-> e, iso |-> iso]

CalendarEventChoices ==
    { Ev("g1", "standup", <<"primary">>, "google", Tue + 600, Tue + 660,
         FALSE),
      Ev("m1", "lunch", <<"work">>, "microsoft", Tue + 660, Tue + 720, FALSE),
      Ev("g2", "ping", <<"primary">>, "google", Tue + 630, Tue + 630, FALSE),
      Ev(<<"thunderbird", "t1">>, "review", <<"thunderbird", "home">>,
         "thunderbird", Tue + 600, Tue + 660, TRUE) }

CA_Start ==
    /\ time_slots \in SeqsUpTo(SlotChoices, MaxTimeSlots)
    /\ ca_events \in SeqsUpTo(CalendarEventChoices, MaxEvents)
    /\ ca_i = 1
    /\ availability_results = <<>>
    /\ ca_pc = "loop"

CA_Idle ==
    /\ ca_pc = "idle"
    /\ time_slots = <<>>
    /\ ca_events = <<>>
    /\ ca_i = 1
    /\ availability_results = <<>>

\* loop iteration for a slot parse_time_slot cannot parse
CA_InvalidSlot ==
    /\ ca_pc = "loop"
    /\ ca_i <= Len(time_slots)
    /\ LET slot == time_slots[ca_i]
       IN  /\ ~parse_time_slot(slot).ok
           /\ availability_results' =
                 Store(availability_results, SlotKey(slot), InvalidEntry)
    /\ ca_i' = ca_i + 1
    /\ UNCHANGED <<ca_pc, time_slots, ca_events>>
    /\ OthersOfAvail

\* loop iteration for a parsed slot: collect the conflicts, store the entry
CA_CheckSlot ==
    /\ ca_pc = "loop"
    /\ ca_i <= Len(time_slots)
    /\ \A j \in 1..Len(ca_events) : ~HasStringTimes(ca_events[j])
    /\ LET slot == time_slots[ca_i]
           w == parse_time_slot(slot)
       IN  /\ w.ok
           /\ availability_results' =
                 Store(availability_results, SlotKey(slot),
                       SlotEntry(FindConflicts(w.start, w.end, ca_events),
                                 w.start, w.end))
    /\ ca_i' = ca_i + 1
    /\ UNCHANGED <<ca_pc, time_slots, ca_events>>
    /\ OthersOfAvail

\* loop iteration for a parsed slot that meets an event with string times:
\* the comparison of a datetime with a str raises TypeError
CA_Raise ==
    /\ ca_pc = "loop"
    /\ ca_i <= Len(time_slots)
    /\ parse_time_slot(time_slots[ca_i]).ok
    /\ \E j \in 1..Len(ca_events) : HasStringTimes(ca_events[j])
    /\ ca_pc' = "raised"
    /\ UNCHANGED <<time_slots, ca_events, ca_i, availability_results>>
    /\ OthersOfAvail

\* return availability_results
CA_Return ==
    /\ ca_pc = "loop"
    /\ ca_i > Len(time_slots)
    /\ ca_pc' = "done"
    /\ UNCHANGED <<time_slots, ca_events, ca_i, availability_results>>
    /\ OthersOfAvail

CA_Next ==
    \/ CA_InvalidSlot
    \/ CA_CheckSlot
    \/ CA_Raise
    \/ CA_Return

----------------------------------------------------------------------------
\* Event gathering of the calendar routes (routes/calendar_routes.py):
\*   "events"        GET  /calendar/events        get_events
\*   "availability"  POST /calendar/availability  check_calendar_availability
\*   "suggest"       POST /calendar/suggest       suggest_times
\*
\* A calendar id string is the sequence of its colon-separated parts:
\* 'google:primary' is <<"google", "primary">>, 'work' is <<"work">>.

\* a selected calendar given as a string (from the session)
CalStr(parts) == [dict |-> FALSE, parts |-> parts, provider |-> ""]

\* a selected calendar given as a dictionary (from the discovery)
CalDict(parts, provider) ==
    [dict |-> TRUE, parts |-> parts, provider |-> provider]

\* text.startswith(prefix + ':')
StartsWith(parts, prefix) == Len(parts) >= 2 /\ parts[1] = prefix

RECURSIVE RemoveAll(_, _)
\* text.replace(prefix + ':', ''): every occurrence is removed
RemoveAll(parts, prefix) ==
    IF Len(parts) <= 1 THEN parts
    ELSE IF Head(parts) = prefix THEN RemoveAll(Tail(parts), prefix)
    ELSE <<Head(parts)>> \o RemoveAll(Tail(parts), prefix)

\* get_events: a string calendar becomes {'id': cal_id, 'provider': provider}
ResolveString(parts) ==
    IF StartsWith(parts, "thunderbird")
    THEN [provider |-> "thunderbird", id |-> parts]
    ELSE IF StartsWith(parts, "google")
    THEN [provider |-> "google", id |-> RemoveAll(parts, "google")]
    ELSE IF StartsWith(parts, "microsoft")
    THEN [provider |-> "microsoft", id |-> RemoveAll(parts, "microsoft")]
    ELSE IF StartsWith(parts, "apple")
    THEN [provider |-> "apple", id |-> RemoveAll(parts, "apple")]
    ELSE [provider |-> "thunderbird", id |-> parts]

\* the calendar get_events hands to the provider function
EventsCalendar(cal) ==
    IF cal.dict THEN [provider |-> cal.provider, id |-> cal.parts]
    ELSE ResolveString(cal.parts)

\* what the Google API holds for a calendar id; an unknown id is an API error
GoogleItems(cal_id) ==
    IF cal_id = <<"primary">>
    THEN << Ev(<<"g1">>, "standup", cal_id, "google", Tue + 600, Tue + 660, FALSE),
            Ev(<<"g2">>, "ping", cal_id, "google", Tue + 630, Tue + 630, FALSE) >>
    ELSE IF cal_id = <<"team">>
    THEN << Ev(<<"g3">>, "retro", cal_id, "google", Tue + 840, Tue + 900, FALSE) >>
    ELSE <<>>

GoogleKnows(cal_id) == cal_id \in {<<"primary">>, <<"team">>}

\* get_google_events: every exception is swallowed and [] returned
get_google_events(cal_id) ==
    IF cal_id \in broken \/ ~GoogleKnows(cal_id) THEN <<>>
    ELSE GoogleItems(cal_id)

MicrosoftItems(cal_id) ==
    IF cal_id = <<"work">>
    THEN << Ev(<<"m1">>, "lunch", cal_id, "microsoft", Tue + 660, Tue + 720,
               FALSE) >>
    ELSE <<>>

\* get_microsoft_events: a non-200 answer or an exception gives []
get_microsoft_events(cal_id) ==
    IF cal_id \in broken \/ cal_id # <<"work">> THEN <<>>
    ELSE MicrosoftItems(cal_id)

\* the rows of cal_events in the Thunderbird database
ThunderbirdRows ==
    << [id |-> "t1", cal_id |-> <<"home">>, title |-> "review",
        start |-> Tue + 600, end |-> Tue + 660],
       [id |-> "t2", cal_id |-> <<"shared">>, title |-> "dentist",
        start |-> Day(5) + 900, end |-> Day(5) + 960] >>

\* requested_cal_ids: the id without its 'thunderbird:' prefix
CleanThunderbirdId(parts) ==
    IF StartsWith(parts, "thunderbird") THEN Tail(parts) ELSE parts

\* the event dictionary built from one row: ISO strings for start and end
ThunderbirdEvent(row) ==
    Ev(<<"thunderbird", row.id>>, row.title, <<"thunderbird">> \o row.cal_id,
       "thunderbird", row.start, row.end, TRUE)

\* the loop over the fetched rows
MapRows(rows) == [i \in 1..Len(rows) |-> ThunderbirdEvent(rows[i])]

\* route-level get_thunderbird_events for one requested calendar id: the
\* rows of that calendar inside the range; when there are none, every row
\* inside the range; a database error gives []
get_thunderbird_events(parts) ==
    IF <<"thunderbird-db">> \in broken THEN <<>>
    ELSE LET InRange(row) == row.start < req_end /\ row.end > req_start
             Wanted(row) ==
                 row.cal_id = CleanThunderbirdId(parts) /\ InRange(row)
             exact == SelectSeq(ThunderbirdRows, Wanted)
         IN  IF Len(exact) = 0
             THEN MapRows(SelectSeq(ThunderbirdRows, InRange))
             ELSE MapRows(exact)

Fetched(events) == [kind |-> "ok", events |-> events, error |-> "none"]

Skipped == [kind |-> "skip", events |-> <<>>, error |-> "none"]

Raises(error) == [kind |-> "raise", events |-> <<>>, error |-> error]

\* get_apple_events called with a list of dictionaries {'id': cal_id,
\* 'provider': 'apple'}: [] for sample calendars and for ids without the
\* 'apple:' prefix, KeyError on cal['name'] otherwise
get_apple_events_of_dict(cal_id) ==
    IF StartsWith(cal_id, "apple") /\ cal_id[2] = "sample" THEN Fetched(<<>>)
    ELSE IF StartsWith(cal_id, "apple") THEN Raises("KeyError")
    ELSE Fetched(<<>>)

\* one iteration of the loop of get_events over a selected calendar
EventsRouteFetch(cal) ==
    LET c == IF cal.dict THEN [provider |-> cal.provider, id |-> cal.parts]
             ELSE ResolveString(cal.parts)
    IN  IF c.provider = "google" /\ google_token
        THEN Fetched(get_google_events(c.id))
        ELSE IF c.provider = "microsoft" /\ microsoft_token
        THEN Fetched(get_microsoft_events(c.id))
        ELSE IF c.provider = "apple" /\ is_darwin
        \* get_apple_events([cal_id], ...) indexes a str with 'id'
        THEN Raises("TypeError")
        ELSE IF c.provider = "thunderbird"
        THEN Fetched(get_thunderbird_events(
                 IF StartsWith(c.id, "thunderbird") THEN c.id
                 ELSE <<"thunderbird">> \o c.id))
        ELSE Skipped

\* one iteration of the loop of check_calendar_availability and of
\* suggest_times: provider, cal_id = calendar_id.split(':', 1)
PostRouteFetch(cal) ==
    IF Len(cal.parts) < 2 THEN Raises("ValueError")
    ELSE LET provider == cal.parts[1]
             cal_id == Tail(cal.parts)
         IN  IF provider = "google" /\ google_token
             THEN Fetched(get_google_events(cal_id))
             ELSE IF provider = "microsoft" /\ microsoft_token
             THEN Fetched(get_microsoft_events(cal_id))
             ELSE IF provider = "apple" /\ is_darwin
             THEN get_apple_events_of_dict(cal_id)
             ELSE IF provider = "thunderbird"
             THEN Fetched(get_thunderbird_events(cal.parts))
             ELSE Skipped

RouteFetch(r, cal) ==
    IF r = "events" THEN EventsRouteFetch(cal) ELSE PostRouteFetch(cal)

\* get_events with no selected calendar: the calendars of every provider
\* that answers, as dictionaries
DiscoveredCalendars ==
    (IF is_darwin THEN <<CalDict(<<"apple", "Home">>, "apple")>> ELSE <<>>)
    \o (IF <<"thunderbird-db">> \in broken THEN <<>>
        ELSE << CalDict(<<"thunderbird", "home">>, "thunderbird"),
                CalDict(<<"thunderbird", "shared">>, "thunderbird") >>)
    \o (IF google_token /\ <<"primary">> \notin broken
        THEN <<CalDict(<<"google", "primary">>, "google")>> ELSE <<>>)
    \o (IF microsoft_token /\ <<"work">> \notin broken
        THEN <<CalDict(<<"microsoft", "work">>, "microsoft")>> ELSE <<>>)

\* the entry of the JSON body of /events for one event
FormatEvent(ev) ==
    [id |-> ev.id, title |-> ev.title, start |-> IsoZ(ev.start),
     end |-> IsoZ(ev.end), provider |-> ev.provider,
     calendar_id |-> ev.calendar_id]

FormatEvents(events) == [i \in 1..Len(events) |-> FormatEvent(events[i])]

\* the fixed entry get_events appends to every answer
test_event ==
    [id |-> <<"test-event-2025">>, title |-> "Test Event for March 2025",
     start |-> IsoZ(Tue + 600), end |-> IsoZ(Tue + 690),
     provider |-> "thunderbird", calendar_id |-> <<"thunderbird", "test">>]

\* suggest_times hands all_events to find_available_slots with the default
\* working hours 9 to 17: sorting a list that mixes ISO strings and
\* datetimes raises TypeError, and so does the first comparison of the
\* cursor with a busy period made of strings
SuggestRaises(events) ==
    LET strs == {j \in 1..Len(events) : events[j].iso}
        scans == \E k \in 0..((req_end - req_start) \div MinutesPerDay + 1) :
                    LET cd == ReplaceHour(req_start, 9) + k * MinutesPerDay
                    IN  /\ cd <= ReplaceHour(req_end, 17)
                        /\ weekday(cd) < 5
                        /\ 9 * 60 + req_duration <= 17 * 60
    IN  /\ strs # {}
        /\ \/ strs # 1..Len(events)
           \/ scans

CalendarChoices ==
    { CalStr(<<"google", "primary">>), CalStr(<<"google", "team">>),
      CalStr(<<"microsoft", "work">>), CalStr(<<"apple", "Home">>),
      CalStr(<<"apple", "apple", "Home">>),
      CalStr(<<"thunderbird", "home">>), CalStr(<<"caldav", "x">>),
      CalStr(<<"work">>) }

BrokenChoices == SUBSET {<<"primary">>, <<"work">>, <<"thunderbird-db">>}

\* requests.get is called without a timeout: a Graph endpoint that never
\* answers keeps the call waiting
UnresponsiveChoices == SUBSET {"microsoft"}

\* the provider call made for this calendar never returns
Hangs(r, cal) ==
    /\ "microsoft" \in unresponsive
    /\ microsoft_token
    /\ IF r = "events" THEN EventsCalendar(cal).provider = "microsoft"
       ELSE Len(cal.parts) >= 2 /\ cal.parts[1] = "microsoft"

\* get_microsoft_calendars of the discovery never returns
DiscoveryHangs == "microsoft" \in unresponsive /\ microsoft_token

\* Tue 18 Mar all day; Sat 22 Mar to Sun 23 Mar; Wed 19 Mar back to Tue
\* 18 Mar, the range of a request whose end lies before its start
RequestRangeChoices ==
    {<<Day(1), Day(2)>>, <<Day(5), Day(6)>>, <<Day(2), Day(1)>>}

AGG_Start ==
    /\ route \in {"events", "availability", "suggest"}
    /\ request_ok \in BOOLEAN
    /\ selected_calendars \in SeqsUpTo(CalendarChoices, MaxCalendars)
    /\ google_token \in BOOLEAN
    /\ microsoft_token \in BOOLEAN
    /\ is_darwin \in BOOLEAN
    /\ broken \in BrokenChoices
    /\ unresponsive \in UnresponsiveChoices
    /\ \E r \in RequestRangeChoices : req_start = r[1] /\ req_end = r[2]
    /\ req_duration \in {60, 600}
    /\ agg_i = 1
    /\ all_events = <<>>
    /\ agg_status = 0
    /\ agg_error = "none"
    /\ agg_response = <<>>
    /\ agg_pc = "start"

AGG_Idle ==
    /\ agg_pc = "idle"
    /\ route = "events"
    /\ request_ok = TRUE
    /\ selected_calendars = <<>>
    /\ google_token = FALSE
    /\ microsoft_token = FALSE
    /\ is_darwin = FALSE
    /\ broken = {}
    /\ unresponsive = {}
    /\ req_start = 0
    /\ req_end = 0
    /\ req_duration = 0
    /\ agg_i = 1
    /\ all_events = <<>>
    /\ agg_status = 0
    /\ agg_error = "none"
    /\ agg_response = <<>>

\* the request is refused with 400: unparsable start/end on /events, no
\* time_slots or date_range in the body or no selected calendar on the
\* POST routes
AGG_Reject ==
    /\ agg_pc = "start"
    /\ \/ ~request_ok
       \/ route # "events" /\ selected_calendars = <<>>
    /\ agg_status' = 400
    /\ agg_pc' = "done"
    /\ UNCHANGED <<selected_calendars, agg_i, all_events, agg_error,
                   agg_response, aggEnv>>
    /\ OthersOfAgg

\* get_events without selected calendars: use every calendar found
AGG_Discover ==
    /\ agg_pc = "start"
    /\ request_ok
    /\ route = "events"
    /\ selected_calendars = <<>>
    /\ ~DiscoveryHangs
    /\ selected_calendars' = DiscoveredCalendars
    /\ agg_pc' = "gather"
    /\ UNCHANGED <<agg_i, all_events, agg_status, agg_error, agg_response,
                   aggEnv>>
    /\ OthersOfAgg

\* the request is accepted with the calendars of the session
AGG_Accept ==
    /\ agg_pc = "start"
    /\ request_ok
    /\ selected_calendars # <<>>
    /\ agg_pc' = "gather"
    /\ UNCHANGED <<selected_calendars, agg_i, all_events, agg_status,
                   agg_error, agg_response, aggEnv>>
    /\ OthersOfAgg

\* loop iteration whose provider call returns: all_events.extend(events)
AGG_Fetch ==
    /\ agg_pc = "gather"
    /\ agg_i <= Len(selected_calendars)
    /\ ~Hangs(route, selected_calendars[agg_i])
    /\ LET res == RouteFetch(route, selected_calendars[agg_i])
       IN  /\ res.kind = "ok"
           /\ all_events' = all_events \o res.events
    /\ agg_i' = agg_i + 1
    /\ UNCHANGED <<agg_pc, selected_calendars, agg_status, agg_error,
                   agg_response, aggEnv>>
    /\ OthersOfAgg

\* loop iteration that matches no provider branch
AGG_Skip ==
    /\ agg_pc = "gather"
    /\ agg_i <= Len(selected_calendars)
    /\ RouteFetch(route, selected_calendars[agg_i]).kind = "skip"
    /\ agg_i' = agg_i + 1
    /\ UNCHANGED <<agg_pc, selected_calendars, all_events, agg_status,
                   agg_error, agg_response, aggEnv>>
    /\ OthersOfAgg

\* get_events: the exception of one calendar is caught and logged
AGG_Caught ==
    /\ agg_pc = "gather"
    /\ agg_i <= Len(selected_calendars)
    /\ route = "events"
    /\ RouteFetch(route, selected_calendars[agg_i]).kind = "raise"
    /\ agg_i' = agg_i + 1
    /\ UNCHANGED <<agg_pc, selected_calendars, all_events, agg_status,
                   agg_error, agg_response, aggEnv>>
    /\ OthersOfAgg

\* the POST routes have no try around the loop: the exception leaves the
\* handler and the request ends with status 500
AGG_Abort ==
    /\ agg_pc = "gather"
    /\ agg_i <= Len(selected_calendars)
    /\ route # "events"
    /\ LET res == RouteFetch(route, selected_calendars[agg_i])
       IN  /\ res.kind = "raise"
           /\ agg_error' = res.error
    /\ agg_status' = 500
    /\ agg_pc' = "done"
    /\ UNCHANGED <<selected_calendars, agg_i, all_events, agg_response,
                   aggEnv>>
    /\ OthersOfAgg

\* get_events after the loop: format the events, append test_event
AGG_FinishEvents ==
    /\ agg_pc = "gather"
    /\ agg_i > Len(selected_calendars)
    /\ route = "events"
    /\ agg_response' = FormatEvents(all_events) \o <<test_event>>
    /\ agg_status' = 200
    /\ agg_pc' = "done"
    /\ UNCHANGED <<selected_calendars, agg_i, all_events, agg_error, aggEnv>>
    /\ OthersOfAgg

\* check_calendar_availability after the loop: the name check_availability
\* is rebound by the route function of the same module, which takes no
\* argument, so the call check_availability(time_slots, all_events) raises
AGG_FinishAvailability ==
    /\ agg_pc = "gather"
    /\ agg_i > Len(selected_calendars)
    /\ route = "availability"
    /\ agg_error' = "TypeError"
    /\ agg_status' = 500
    /\ agg_pc' = "done"
    /\ UNCHANGED <<selected_calendars, agg_i, all_events, agg_response,
                   aggEnv>>
    /\ OthersOfAgg

\* suggest_times after the loop: find_available_slots over all_events
AGG_FinishSuggest ==
    /\ agg_pc = "gather"
    /\ agg_i > Len(selected_calendars)
    /\ route = "suggest"
    /\ IF SuggestRaises(all_events)
       THEN agg_error' = "TypeError" /\ agg_status' = 500
       ELSE agg_error' = agg_error /\ agg_status' = 200
    /\ agg_pc' = "done"
    /\ UNCHANGED <<selected_calendars, agg_i, all_events, agg_response,
                   aggEnv>>
    /\ OthersOfAgg

AGG_Next ==
    \/ AGG_Reject
    \/ AGG_Discover
    \/ AGG_Accept
    \/ AGG_Fetch
    \/ AGG_Skip
    \/ AGG_Caught
    \/ AGG_Abort
    \/ AGG_FinishEvents
    \/ AGG_FinishAvailability
    \/ AGG_FinishSuggest

----------------------------------------------------------------------------
\* Timestamp conversions: microseconds_to_datetime
\* (services/thunderbird_calendar.py), parse_time_slot (utils/date_utils.py)
\* and the parser of the Google and Microsoft events
\* (services/google_calendar.py, services/microsoft_calendar.py).
\*
\* A count of microseconds since the epoch is the pair [s, u] that stands
\* for s * 1000000 + u with 0 <= u < 1000000. An aware datetime is the
\* instant it denotes: [ok, s, u] with s seconds and u microseconds since
\* the epoch; ok = FALSE is None.

Microseconds(s, u) == [s |-> s, u |-> u]

Aware(s, u) == [ok |-> TRUE, s |-> s, u |-> u]

NoDatetime == [ok |-> FALSE, s |-> 0, u |-> 0]

\* if not microseconds: return None; otherwise the count is divided by
\* 1000000 and datetime.fromtimestamp(seconds, timezone.utc) rounds the
\* float back to the microsecond it came from
microseconds_to_datetime(m) ==
    IF m.s = 0 /\ m.u = 0 THEN NoDatetime ELSE Aware(m.s, m.u)

\* ISO-8601 text: the wall clock in seconds since the epoch, the fraction
\* of the second in microseconds, and the suffix "Z" or "+hh:mm"
IsoText(wall, frac, suffix) == [wall |-> wall, frac |-> frac, suffix |-> suffix]

\* the seconds a "+hh:mm" suffix stands for
UtcOffset(suffix) == IF suffix = "+01:00" THEN 3600 ELSE 0

\* datetime.isoformat() of the instant seen at a UTC offset
FormatIso(s, u, suffix) == IsoText(s + UtcOffset(suffix), u, suffix)

\* text.replace('Z', '+00:00')
ReplaceZ(text) ==
    IF text.suffix = "Z" THEN [text EXCEPT !.suffix = "+00:00"] ELSE text

\* datetime.fromisoformat of a text with a "+hh:mm" suffix
fromisoformat(text) == Aware(text.wall - UtcOffset(text.suffix), text.frac)

\* get_google_events, get_microsoft_events:
\* datetime.fromisoformat(start.replace('Z', '+00:00'))
ProviderParse(text) == fromisoformat(ReplaceZ(text))

\* the start parse_time_slot returns for {'start': text}
SlotStart(text) ==
    LET tok == Tok(IF text.suffix = "Z" THEN "z" ELSE "offset", text.wall,
                   UtcOffset(text.suffix))
        parsed == parse_time_slot([start |-> tok, end |-> Absent])
    IN  IF parsed.ok THEN Aware(parsed.start, text.frac) ELSE NoDatetime

\* 1970-01-01T00:00:00Z, one second later, and Tuesday 2025-03-18 10:00,
\* 10:30 and 23:30 UTC
InstantSeconds == {0, 1, 1742292000, 1742293800, 1742340600}

FractionChoices == {0, 1, 999999}

OffsetSuffixChoices == {"+00:00", "+01:00"}

Conversions == {"thunderbird", "slot", "provider"}

TS_Start ==
    /\ \E s \in InstantSeconds : \E u \in FractionChoices :
       \E suffix \in OffsetSuffixChoices :
          /\ ts_microseconds = Microseconds(s, u)
          /\ ts_text_z = FormatIso(s, u, "Z")
          /\ ts_text_offset = FormatIso(s, u, suffix)
    /\ ts_done = {}
    /\ start_thunderbird = NoDatetime
    /\ start_slot = <<NoDatetime, NoDatetime>>
    /\ start_provider = <<NoDatetime, NoDatetime>>

TS_Idle ==
    /\ ts_microseconds = Microseconds(0, 0)
    /\ ts_text_z = FormatIso(0, 0, "Z")
    /\ ts_text_offset = FormatIso(0, 0, "+00:00")
    /\ ts_done = Conversions
    /\ start_thunderbird = NoDatetime
    /\ start_slot = <<NoDatetime, NoDatetime>>
    /\ start_provider = <<NoDatetime, NoDatetime>>

\* the Thunderbird reader converts the stored count
TS_Thunderbird ==
    /\ "thunderbird" \notin ts_done
    /\ start_thunderbird' = microseconds_to_datetime(ts_microseconds)
    /\ ts_done' = ts_done \cup {"thunderbird"}
    /\ UNCHANGED <<ts_microseconds, ts_text_z, ts_text_offset, start_slot,
                   start_provider>>
    /\ OthersOfTs

\* parse_time_slot reads the two texts
TS_ParseTimeSlot ==
    /\ "slot" \notin ts_done
    /\ start_slot' = <<SlotStart(ts_text_z), SlotStart(ts_text_offset)>>
    /\ ts_done' = ts_done \cup {"slot"}
    /\ UNCHANGED <<ts_microseconds, ts_text_z, ts_text_offset,
                   start_thunderbird, start_provider>>
    /\ OthersOfTs

\* the Google and Microsoft readers parse the two texts
TS_ProviderParse ==
    /\ "provider" \notin ts_done
    /\ start_provider' =
           <<ProviderParse(ts_text_z), ProviderParse(ts_text_offset)>>
    /\ ts_done' = ts_done \cup {"provider"}
    /\ UNCHANGED <<ts_microseconds, ts_text_z, ts_text_offset,
                   start_thunderbird, start_slot>>
    /\ OthersOfTs

TS_Next ==
    \/ TS_Thunderbird
    \/ TS_ParseTimeSlot
    \/ TS_ProviderParse

----------------------------------------------------------------------------
\* Event construction of the Thunderbird reader: the loop over the fetched
\* rows in get_thunderbird_events (routes/calendar_routes.py, 918-972).
\* A row is (id, cal_id, title, event_start, event_end, flags) with the two
\* times as microsecond counts; flags = -1 stands for NULL.

SecondsPerDay == 86400

\* 2025-03-18T00:00:00Z in seconds since the epoch
TueEpoch == 20165 * SecondsPerDay

Row(id, s, e, flags) ==
    [id |-> id, cal_id |-> "home", title |-> id,
     event_start |-> Microseconds(s, 0), event_end |-> Microseconds(e, 0),
     flags |-> flags]

\* bool(flags & 4) if flags is not None else False
AllDayBit(flags) == flags # -1 /\ (flags \div 4) % 2 = 1

\* start_dt.hour == 0 and start_dt.minute == 0 and start_dt.second == 0
StartMidnight(start_dt) == start_dt.s % SecondsPerDay = 0

\* 0.95 < (end_dt - start_dt).total_seconds() / 86400 < 1.05
DurationNearOneDay(start_dt, end_dt) ==
    LET seconds == end_dt.s - start_dt.s
    IN  95 * SecondsPerDay < 100 * seconds /\ 100 * seconds < 105 * SecondsPerDay

AllDay_TrustFlag(flags, start_dt, end_dt) == AllDayBit(flags)

\* is_all_day_flag after the correction of lines 951-955
AllDay(flags, start_dt, end_dt) ==
    IF AllDayBit(flags)
    THEN ~(~StartMidnight(start_dt) \/ ~DurationNearOneDay(start_dt, end_dt))
    ELSE FALSE

\* event_data
EventData(row) ==
    LET start_dt == microseconds_to_datetime(row.event_start)
        end_dt == microseconds_to_datetime(row.event_end)
    IN  [id |-> <<"thunderbird", row.id>>,
         calendar_id |-> <<"thunderbird", row.cal_id>>,
         title |-> row.title,
         start |-> FormatIso(start_dt.s, start_dt.u, "+00:00"),
         end |-> FormatIso(end_dt.s, end_dt.u, "+00:00"),
         all_day |-> AllDay(row.flags, start_dt, end_dt),
         provider |-> "thunderbird"]

\* not start_dt or not end_dt
InvalidDates(row) ==
    \/ ~microseconds_to_datetime(row.event_start).ok
    \/ ~microseconds_to_datetime(row.event_end).ok

\* the rows a query over Tuesday 2025-03-18 to Thursday can fetch
RowChoices ==
    { Row("day", TueEpoch, TueEpoch + 86400, 4),
      Row("day5", TueEpoch, TueEpoch + 86400, 5),
      Row("two-days", TueEpoch, TueEpoch + 172800, 4),
      Row("short-day", TueEpoch, TueEpoch + 82080, 4),
      Row("shifted", TueEpoch + 36000, TueEpoch + 122400, 4),
      Row("unflagged", TueEpoch, TueEpoch + 86400, 0),
      Row("bit-one", TueEpoch, TueEpoch + 86400, 3),
      Row("no-flags", TueEpoch + 36000, TueEpoch + 39600, -1),
      Row("instant", TueEpoch + 36000, TueEpoch + 36000, 0),
      Row("inverted", TueEpoch + 39600, TueEpoch + 36000, 0),
      Row("no-start", 0, TueEpoch + 3600, 0) }

TB_Start ==
    /\ tb_rows \in SeqsUpTo(RowChoices, MaxRows)
    /\ tb_i = 1
    /\ tb_results = <<>>
    /\ tb_pc = "loop"

TB_Idle ==
    /\ tb_rows = <<>>
    /\ tb_i = 1
    /\ tb_results = <<>>
    /\ tb_pc = "idle"

\* loop iteration that skips a row whose start or end converts to None
TB_SkipRow ==
    /\ tb_pc = "loop"
    /\ tb_i <= Len(tb_rows)
    /\ InvalidDates(tb_rows[tb_i])
    /\ tb_i' = tb_i + 1
    /\ UNCHANGED <<tb_pc, tb_rows, tb_results>>
    /\ OthersOfTb

\* loop iteration that ends with results.append(event_data)
TB_AppendRow ==
    /\ tb_pc = "loop"
    /\ tb_i <= Len(tb_rows)
    /\ ~InvalidDates(tb_rows[tb_i])
    /\ tb_results' = Append(tb_results, EventData(tb_rows[tb_i]))
    /\ tb_i' = tb_i + 1
    /\ UNCHANGED <<tb_pc, tb_rows>>
    /\ OthersOfTb

\* the loop is over
TB_Return ==
    /\ tb_pc = "loop"
    /\ tb_i > Len(tb_rows)
    /\ tb_pc' = "done"
    /\ UNCHANGED <<tb_rows, tb_i, tb_results>>
    /\ OthersOfTb

TB_Next ==
    \/ TB_SkipRow
    \/ TB_AppendRow
    \/ TB_Return

----------------------------------------------------------------------------
\* upload_screenshot (routes/screenshot_routes.py, 138-338): the time slots
\* read from the screenshot are adjusted, the Thunderbird events fetched
\* and every slot checked against all_events.
\*
\* A datetime of this handler is a year and the minutes since 17 March
\* 00:00 UTC of that year: replace(year=...) keeps month, day and time.

\* a < b for two datetimes given as <<year, minutes>>
Before(a, b) == a[1] < b[1] \/ (a[1] = b[1] /\ a[2] < b[2])

\* a time slot as the screenshot analysis returns it
UploadSlot(year, s, e, context) ==
    [year |-> year, start |-> s, end |-> e, context |-> context,
     available |-> TRUE, conflicts |-> <<>>]

UploadEvent(title, year, s, e, provider) ==
    [title |-> title, year |-> year, start |-> s, end |-> e,
     provider |-> provider]

\* calendar_year: the year of the first event of all_events, else of now
CalendarYear(events, now) ==
    IF Len(events) > 0 THEN events[1].year ELSE now

\* slot['start_time'].replace(year=...), slot['end_time'].replace(year=...)
ReplaceYear(slot, year) == [slot EXCEPT !.year = year]

\* the entry appended to all_events for an adjusted slot
UploadTestEvent(slot) ==
    UploadEvent(<<"Test", slot.context>>, slot.year, slot.start, slot.end,
                "test")

\* slot_start < event_end and slot_end > event_start
UploadOverlaps(slot, event) ==
    /\ Before(<<slot.year, slot.start>>, <<event.year, event.end>>)
    /\ Before(<<event.year, event.start>>, <<slot.year, slot.end>>)

\* the conflict entries of one slot, in the order of all_events
UploadConflicts(slot, events) ==
    SelectSeq(events, LAMBDA event : UploadOverlaps(slot, event))

UploadSlotChoices ==
    { UploadSlot(2025, Tue + 600, Tue + 660, "call"),
      UploadSlot(2024, Tue + 600, Tue + 660, "call"),
      UploadSlot(2026, Tue + 840, Tue + 900, "lunch"),
      UploadSlot(2025, Tue + 900, Tue + 930, "sync") }

\* events of the Thunderbird calendars between 1 March and 1 May 2025
UploadEventChoices ==
    { UploadEvent("review", 2025, Tue + 630, Tue + 690, "thunderbird"),
      UploadEvent("dentist", 2025, Tue + 930, Tue + 990, "thunderbird") }

NowYearChoices == {2025, 2026}

UP_Start ==
    /\ now_year \in NowYearChoices
    /\ parsed_slots \in SeqsUpTo(UploadSlotChoices, MaxUploadSlots) \ {<<>>}
    /\ up_time_slots = parsed_slots
    /\ thunderbird_events \in SeqsUpTo(UploadEventChoices, MaxEvents)
    /\ up_all_events = <<>>
    /\ up_i = 1
    /\ up_pc = "adjust"

UP_Idle ==
    /\ now_year = 2025
    /\ parsed_slots = <<>>
    /\ up_time_slots = <<>>
    /\ thunderbird_events = <<>>
    /\ up_all_events = <<>>
    /\ up_i = 1
    /\ up_pc = "idle"

\* first loop, a slot whose year is the calendar year: left as it is
UP_KeepSlot ==
    /\ up_pc = "adjust"
    /\ up_i <= Len(up_time_slots)
    /\ up_time_slots[up_i].year = CalendarYear(up_all_events, now_year)
    /\ up_i' = up_i + 1
    /\ UNCHANGED <<up_pc, now_year, parsed_slots, up_time_slots,
                   thunderbird_events, up_all_events>>
    /\ OthersOfUp

\* first loop, a slot of another year: its year is replaced and a test
\* event with the new times is appended to all_events
UP_AdjustSlot ==
    /\ up_pc = "adjust"
    /\ up_i <= Len(up_time_slots)
    /\ LET calendar_year == CalendarYear(up_all_events, now_year)
           slot == ReplaceYear(up_time_slots[up_i], calendar_year)
       IN  /\ up_time_slots[up_i].year # calendar_year
           /\ up_time_slots' = [up_time_slots EXCEPT ![up_i] = slot]
           /\ up_all_events' = Append(up_all_events, UploadTestEvent(slot))
    /\ up_i' = up_i + 1
    /\ UNCHANGED <<up_pc, now_year, parsed_slots, thunderbird_events>>
    /\ OthersOfUp

\* after the first loop: the Thunderbird events are appended to all_events
UP_FetchThunderbird ==
    /\ up_pc = "adjust"
    /\ up_i > Len(up_time_slots)
    /\ up_all_events' = up_all_events \o thunderbird_events
    /\ up_i' = 1
    /\ up_pc' = "check"
    /\ UNCHANGED <<now_year, parsed_slots, up_time_slots, thunderbird_events>>
    /\ OthersOfUp

\* second loop: the conflicts and the verdict of one slot
UP_CheckSlot ==
    /\ up_pc = "check"
    /\ up_i <= Len(up_time_slots)
    /\ LET conflicts == UploadConflicts(up_time_slots[up_i], up_all_events)
       IN  up_time_slots' =
               [up_time_slots EXCEPT ![up_i].conflicts = conflicts,
                                     ![up_i].available = (Len(conflicts) = 0)]
    /\ up_i' = up_i + 1
    /\ UNCHANGED <<up_pc, now_year, parsed_slots, thunderbird_events,
                   up_all_events>>
    /\ OthersOfUp

\* the result page is rendered
UP_Return ==
    /\ up_pc = "check"
    /\ up_i > Len(up_time_slots)
    /\ up_pc' = "done"
    /\ UNCHANGED <<now_year, parsed_slots, up_time_slots, thunderbird_events,
                   up_all_events, up_i>>
    /\ OthersOfUp

UP_Next ==
    \/ UP_KeepSlot
    \/ UP_AdjustSlot
    \/ UP_FetchThunderbird
    \/ UP_CheckSlot
    \/ UP_Return

----------------------------------------------------------------------------
\* suggest_times (routes/calendar_routes.py, 207-250): the date range of
\* the request goes through parse_date_range (utils/date_utils.py) and the
\* result is handed to find_available_slots with the default working hours.

\* the instant datetime.now() returns: Tuesday 18 March 10:00
Now == Tue + 600

\* the parsed starts and the parsed ends of the slots
ParsedStarts(slots) ==
    {parse_time_slot(slots[k]).start :
        k \in {j \in 1..Len(slots) : parse_time_slot(slots[j]).ok}}

ParsedEnds(slots) ==
    {parse_time_slot(slots[k]).end :
        k \in {j \in 1..Len(slots) : parse_time_slot(slots[j]).ok}}

Minimum(S) == CHOOSE x \in S : \A y \in S : x <= y

Maximum(S) == CHOOSE x \in S : \A y \in S : x >= y

\* parse_date_range: the current week for an empty list; otherwise the
\* earliest start and the latest end (today and a week from now when no
\* slot parses), widened by one day on each side
parse_date_range(slots) ==
    IF Len(slots) = 0
    THEN LET start_of_week == ReplaceHour(Now - weekday(Now) * MinutesPerDay, 0)
         IN  <<start_of_week, start_of_week + 7 * MinutesPerDay - 1>>
    ELSE LET found == ParsedStarts(slots) # {}
             min_date == IF found THEN Minimum(ParsedStarts(slots))
                         ELSE ReplaceHour(Now, 0)
             max_date == IF found THEN Maximum(ParsedEnds(slots))
                         ELSE Now + 7 * MinutesPerDay
         IN  <<min_date - MinutesPerDay, max_date + MinutesPerDay>>

\* Tue 18 Mar 09:00-17:00; Fri 21 Mar, the whole day; Mon 17 Mar to Tue
\* 18 Mar; a range that cannot be parsed
DateRangeChoices ==
    { [start |-> IsoZ(Tue + 540), end |-> IsoZ(Tue + 1020)],
      [start |-> IsoZ(Day(4)), end |-> IsoZ(Day(4) + 1439)],
      [start |-> IsoZ(Day(0)), end |-> IsoZ(Day(1))],
      [start |-> Unparsable, end |-> Unparsable] }

\* data.get('duration_minutes', 60)
SuggestDurationChoices == {30, 60, 480}

\* the request is accepted and find_available_slots starts on the range
\* parse_date_range returns, with start_hour 9 and end_hour 17
SUG_Start ==
    /\ date_range \in DateRangeChoices
    /\ start_hour = 9
    /\ end_hour = 17
    /\ start_date = ReplaceHour(parse_date_range(<<date_range>>)[1], 9)
    /\ end_date = ReplaceHour(parse_date_range(<<date_range>>)[2], 17)
    /\ duration \in SuggestDurationChoices
    /\ fas_events \in SeqsUpTo(EventChoices, MaxEvents)
    /\ busy_periods = SortByStart(fas_events)
    /\ available_slots = <<>>
    /\ current_date = start_date
    /\ day_start = 0
    /\ day_end = 0
    /\ slot_start = 0
    /\ slot_end = 0
    /\ fas_pc = "days"

SUG_Idle == date_range = [start |-> Absent, end |-> Absent]

----------------------------------------------------------------------------
\* analyze_clipboard (routes/screenshot_routes.py): the events of the
\* selected calendars are fetched for the default range, every slot of the
\* analysis is tested against them, and for a time request the alternative
\* slots are computed.

ClipboardSlot(s, e) ==
    [start_time |-> s, end_time |-> e, available |-> TRUE, conflicts |-> <<>>]

ClipboardEvent(title, s, e) == [title |-> title, start |-> s, end |-> e]

\* get_all_calendar_events without dates: from today 00:00 to seven days on
DefaultRange(today) == <<today, today + 7 * MinutesPerDay>>

\* the WHERE clause of the Thunderbird reader: the event starts in the
\* range, or ends in it, or spans it
InQueryRange(event, range) ==
    \/ (event.start >= range[1] /\ event.start <= range[2])
    \/ (event.end >= range[1] /\ event.end <= range[2])
    \/ (event.start <= range[1] /\ event.end >= range[2])

\* get_all_calendar_events(selected_calendars)
get_all_calendar_events(calendar, today) ==
    SelectSeq(calendar, LAMBDA event : InQueryRange(event, DefaultRange(today)))

\* W.start < E.end and W.end > E.start
HalfOpenOverlap(ws, we, es, ee) == ws < ee /\ we > es

\* the test of analyze_clipboard and of find_alternative_slots
ThreeCaseOverlap(ws, we, es, ee) ==
    \/ (es <= ws /\ ws < ee)
    \/ (es < we /\ we <= ee)
    \/ (ws <= es /\ ee <= we)

\* slot['conflicts'] after the loop over all_events
ClipboardConflicts(slot, events) ==
    SelectSeq(events, LAMBDA event :
        ThreeCaseOverlap(slot.start_time, slot.end_time,
                         event.start, event.end))

\* the slot one hour after an unavailable slot
OneHourLater(slot) ==
    ClipboardSlot(slot.start_time + 60, slot.end_time + 60)

RECURSIVE find_alternative_slots(_, _)
find_alternative_slots(slots, events) ==
    IF Len(slots) = 0 THEN <<>>
    ELSE LET slot == Head(slots)
             new == OneHourLater(slot)
             rest == find_alternative_slots(Tail(slots), events)
         IN  IF ~slot.available
                /\ Len(ClipboardConflicts(new, events)) = 0
             THEN <<new>> \o rest
             ELSE rest

\* Tue 18 Mar 10:00-11:00, 11:00-12:00, 16:00-16:30; Wed 26 Mar 10:00-11:00
ClipboardSlotChoices ==
    { ClipboardSlot(Tue + 600, Tue + 660),
      ClipboardSlot(Tue + 660, Tue + 720),
      ClipboardSlot(Tue + 960, Tue + 990),
      ClipboardSlot(Day(9) + 600, Day(9) + 660) }

\* what the selected calendar holds: a meeting, a reminder of no length at
\* 11:00, a meeting over noon, and a meeting on Wed 26 Mar
ClipboardEventChoices ==
    { ClipboardEvent("review", Tue + 630, Tue + 690),
      ClipboardEvent("reminder", Tue + 660, Tue + 660),
      ClipboardEvent("lunch", Tue + 720, Tue + 780),
      ClipboardEvent("offsite", Day(9) + 600, Day(9) + 660) }

\* the analysis found time slots and a calendar is selected
AC_Start ==
    /\ ac_today \in {Day(0), Day(1)}
    /\ is_suggestion \in BOOLEAN
    /\ ac_time_slots \in
           SeqsUpTo(ClipboardSlotChoices, MaxClipboardSlots) \ {<<>>}
    /\ ac_calendar \in SeqsUpTo(ClipboardEventChoices, MaxEvents)
    /\ ac_all_events = <<>>
    /\ ac_i = 1
    /\ suggested_slots = <<>>
    /\ ac_pc = "fetch"

AC_Idle ==
    /\ ac_today = 0
    /\ is_suggestion = FALSE
    /\ ac_time_slots = <<>>
    /\ ac_calendar = <<>>
    /\ ac_all_events = <<>>
    /\ ac_i = 1
    /\ suggested_slots = <<>>
    /\ ac_pc = "idle"

\* all_events = get_all_calendar_events(selected_calendars)
AC_Fetch ==
    /\ ac_pc = "fetch"
    /\ ac_all_events' = get_all_calendar_events(ac_calendar, ac_today)
    /\ ac_pc' = "check"
    /\ UNCHANGED <<ac_today, is_suggestion, ac_time_slots, ac_calendar, ac_i,
                   suggested_slots>>
    /\ OthersOfAc

\* one slot of the loop: its conflicts and its verdict
AC_CheckSlot ==
    /\ ac_pc = "check"
    /\ ac_i <= Len(ac_time_slots)
    /\ LET conflicts == ClipboardConflicts(ac_time_slots[ac_i], ac_all_events)
       IN  ac_time_slots' =
               [ac_time_slots EXCEPT ![ac_i].conflicts = conflicts,
                                     ![ac_i].available = (Len(conflicts) = 0)]
    /\ ac_i' = ac_i + 1
    /\ UNCHANGED <<ac_pc, ac_today, is_suggestion, ac_calendar,
                   ac_all_events, suggested_slots>>
    /\ OthersOfAc

\* a time request: the alternative slots are computed before rendering
AC_Alternatives ==
    /\ ac_pc = "check"
    /\ ac_i > Len(ac_time_slots)
    /\ ~is_suggestion
    /\ suggested_slots' = find_alternative_slots(ac_time_slots, ac_all_events)
    /\ ac_pc' = "done"
    /\ UNCHANGED <<ac_today, is_suggestion, ac_time_slots, ac_calendar,
                   ac_all_events, ac_i>>
    /\ OthersOfAc

\* a suggestion: the result is rendered as it is
AC_Return ==
    /\ ac_pc = "check"
    /\ ac_i > Len(ac_time_slots)
    /\ is_suggestion
    /\ ac_pc' = "done"
    /\ UNCHANGED <<ac_today, is_suggestion, ac_time_slots, ac_calendar,
                   ac_all_events, ac_i, suggested_slots>>
    /\ OthersOfAc

AC_Next ==
    \/ AC_Fetch
    \/ AC_CheckSlot
    \/ AC_Alternatives
    \/ AC_Return

----------------------------------------------------------------------------
\* The clipboard monitor (services/clipboard_monitor.py): callers run
\* start_clipboard_monitor_thread and stop_clipboard_monitor_thread, each
\* monitor thread runs monitor_clipboard. The two globals monitor_thread and
\* is_monitoring are read and written without a lock, so the statements of
\* concurrent calls and of the threads interleave.

Threads == 1..MaxThreads

Images == {"a", "b"}

\* the statements of start_clipboard_monitor_thread a caller can be at
StartSteps == {"check", "flag", "create", "launch"}

\* a Thread object that does not exist yet
FreeThread ==
    [pc |-> "free", last_image_hash |-> "none", img_stale |-> FALSE,
     post_failed |-> FALSE, alone |-> FALSE]

\* Thread.is_alive(): between start() and the return of monitor_clipboard
is_alive(t) == cm_threads[t].pc \in {"test", "grab", "post"}

Created == {t \in Threads : cm_threads[t].pc # "free"}

\* the number of callers inside start_clipboard_monitor_thread
Starting ==
    cm_callers["check"] + cm_callers["flag"] + cm_callers["create"]
        + cm_callers["launch"]

\* one caller goes from one statement to the next ("idle": it returns)
Advance(from, to) ==
    IF to = "idle" THEN [cm_callers EXCEPT ![from] = @ - 1]
    ELSE [cm_callers EXCEPT ![from] = @ - 1, ![to] = @ + 1]

\* the next Thread object
NextThread ==
    CHOOSE t \in Threads \ Created : \A u \in Threads \ Created : t <= u

\* threading.Thread(target=monitor_clipboard, daemon=True), not yet started;
\* alone: every thread created before it has ended
NewThread ==
    [FreeThread EXCEPT !.pc = "new",
                       !.alone = \A u \in Created : cm_threads[u].pc = "ended"]

\* monitor_clipboard has returned: its locals are gone
EndedThread(thread) == [FreeThread EXCEPT !.pc = "ended", !.alone = thread.alone]

\* while is_monitoring:
WhileCondition_Forever(flag) == TRUE

WhileCondition(flag) == flag

\* last_image_hash = img_hash, before the post
RememberHash_AfterSuccess(last, img_hash) == last

RememberHash(last, img_hash) == img_hash

\* one more post of a thread for the clipboard content, counted up to the
\* bound; the post of an image that has left the clipboard is not counted
CountPost(posted, t) ==
    IF cm_threads[t].img_stale THEN posted
    ELSE [posted EXCEPT ![t] = IF @ < MaxPostCount THEN @ + 1
                               ELSE MaxPostCount]

\* the module is imported: no thread, the flag is off
CM_Loaded ==
    /\ monitor_thread = 0
    /\ is_monitoring = FALSE
    /\ cm_callers = [step \in StartSteps |-> 0]
    /\ cm_threads = [t \in Threads |-> FreeThread]
    /\ cm_posted = [t \in Threads |-> 0]
    /\ cm_last = "none"

CM_Start == CM_Loaded /\ clipboard \in {"none", "a"}

CM_Idle == CM_Loaded /\ clipboard = "none"

\* a caller enters start_clipboard_monitor_thread
CM_CallStart ==
    /\ Cardinality(Created) + Starting < MaxThreads
    /\ cm_callers' = [cm_callers EXCEPT !["check"] = @ + 1]
    /\ cm_last' = IF Starting = 0 THEN "start" ELSE "start_overlapping"
    /\ UNCHANGED <<monitor_thread, is_monitoring, cm_threads, clipboard,
                   cm_posted>>
    /\ OthersOfCm

\* if monitor_thread is not None and monitor_thread.is_alive(): return
CM_Check ==
    /\ cm_callers["check"] > 0
    /\ cm_callers' =
           IF monitor_thread # 0 /\ is_alive(monitor_thread)
           THEN Advance("check", "idle") ELSE Advance("check", "flag")
    /\ UNCHANGED <<monitor_thread, is_monitoring, cm_threads, clipboard,
                   cm_posted, cm_last>>
    /\ OthersOfCm

\* is_monitoring = True
CM_SetFlag ==
    /\ cm_callers["flag"] > 0
    /\ is_monitoring' = TRUE
    /\ cm_callers' = Advance("flag", "create")
    /\ UNCHANGED <<monitor_thread, cm_threads, clipboard, cm_posted, cm_last>>
    /\ OthersOfCm

\* monitor_thread = threading.Thread(...)
CM_Create ==
    /\ cm_callers["create"] > 0
    /\ monitor_thread' = NextThread
    /\ cm_threads' = [cm_threads EXCEPT ![NextThread] = NewThread]
    /\ cm_callers' = Advance("create", "launch")
    /\ UNCHANGED <<is_monitoring, clipboard, cm_posted, cm_last>>
    /\ OthersOfCm

\* monitor_thread.start(): the thread the global names now is started; a
\* thread that was started before raises RuntimeError in the caller
CM_Launch ==
    /\ cm_callers["launch"] > 0
    /\ cm_threads' =
           IF cm_threads[monitor_thread].pc = "new"
           THEN [cm_threads EXCEPT ![monitor_thread].pc = "test"]
           ELSE cm_threads
    /\ cm_callers' = Advance("launch", "idle")
    /\ UNCHANGED <<monitor_thread, is_monitoring, clipboard, cm_posted,
                   cm_last>>
    /\ OthersOfCm

\* stop_clipboard_monitor_thread: is_monitoring = False
CM_Stop ==
    /\ is_monitoring' = FALSE
    /\ cm_last' = IF Starting = 0 THEN "stop" ELSE "stop_overlapping"
    /\ UNCHANGED <<monitor_thread, cm_callers, cm_threads, clipboard,
                   cm_posted>>
    /\ OthersOfCm

\* while is_monitoring: the loop goes on or monitor_clipboard returns
CM_LoopTest(t) ==
    /\ cm_threads[t].pc = "test"
    /\ cm_threads' =
           IF WhileCondition(is_monitoring)
           THEN [cm_threads EXCEPT ![t].pc = "grab"]
           ELSE [cm_threads EXCEPT ![t] = EndedThread(@)]
    /\ UNCHANGED <<monitor_thread, is_monitoring, cm_callers, clipboard,
                   cm_posted, cm_last>>
    /\ OthersOfCm

\* img = ImageGrab.grabclipboard() and the comparison of its hash: no image
\* or an exception leads to the sleep, a new hash is remembered and posted;
\* post_failed tells how the post of the iteration before ended
CM_Grab(t) ==
    /\ cm_threads[t].pc = "grab"
    /\ \/ /\ clipboard # "none"
          /\ clipboard # cm_threads[t].last_image_hash
          /\ cm_threads' = [cm_threads EXCEPT
                 ![t].pc = "post",
                 ![t].post_failed = FALSE,
                 ![t].last_image_hash = RememberHash(@, clipboard)]
       \/ /\ clipboard = "none" \/ clipboard = cm_threads[t].last_image_hash
          /\ cm_threads' = [cm_threads EXCEPT ![t].pc = "test",
                                               ![t].post_failed = FALSE]
       \/ \* grabclipboard raises: the handler sleeps five seconds
          /\ cm_threads' = [cm_threads EXCEPT ![t].pc = "test",
                                               ![t].post_failed = FALSE]
    /\ UNCHANGED <<monitor_thread, is_monitoring, cm_callers, clipboard,
                   cm_posted, cm_last>>
    /\ OthersOfCm

\* requests.post(...): it answers or raises RequestException, both are
\* printed and the loop goes on
CM_Post(t) ==
    /\ cm_threads[t].pc = "post"
    /\ \E failed \in BOOLEAN :
           cm_threads' = [cm_threads EXCEPT ![t].pc = "test",
                                            ![t].img_stale = FALSE,
                                            ![t].post_failed = failed]
    /\ cm_posted' = CountPost(cm_posted, t)
    /\ UNCHANGED <<monitor_thread, is_monitoring, cm_callers, clipboard,
                   cm_last>>
    /\ OthersOfCm

\* the user copies something else: the posts of the new content are counted
\* from zero, an image a thread is about to post is no longer the content
CM_Copy ==
    /\ clipboard' \in (Images \cup {"none"}) \ {clipboard}
    /\ cm_posted' = [t \in Threads |-> 0]
    /\ cm_threads' = [t \in Threads |->
           IF cm_threads[t].pc = "post"
           THEN [cm_threads[t] EXCEPT !.img_stale = TRUE]
           ELSE cm_threads[t]]
    /\ UNCHANGED <<monitor_thread, is_monitoring, cm_callers, cm_last>>
    /\ OthersOfCm

\* a step of a monitor thread
CM_Thread == \E t \in Threads : CM_LoopTest(t) \/ CM_Grab(t) \/ CM_Post(t)

CM_Next ==
    \/ CM_CallStart
    \/ CM_Check
    \/ CM_SetFlag
    \/ CM_Create
    \/ CM_Launch
    \/ CM_Stop
    \/ \E t \in Threads : CM_LoopTest(t)
    \/ \E t \in Threads : CM_Grab(t)
    \/ \E t \in Threads : CM_Post(t)
    \/ CM_Copy

----------------------------------------------------------------------------
\* Specifications

\* find_available_slots is called; nothing else runs
InitSlots == FAS_Start /\ CA_Idle /\ AGG_Idle /\ TS_Idle /\ TB_Idle
    /\ UP_Idle /\ SUG_Idle /\ AC_Idle /\ CM_Idle

SpecSlots == InitSlots /\ [][FAS_Next]_vars

\* check_availability is called; nothing else runs
InitAvail == CA_Start /\ FAS_Idle /\ AGG_Idle /\ TS_Idle /\ TB_Idle
    /\ UP_Idle /\ SUG_Idle /\ AC_Idle /\ CM_Idle

SpecAvail == InitAvail /\ [][CA_Next]_vars

\* one request reaches one of the three routes; nothing else runs
InitAgg == AGG_Start /\ FAS_Idle /\ CA_Idle /\ TS_Idle /\ TB_Idle
    /\ UP_Idle /\ SUG_Idle /\ AC_Idle /\ CM_Idle

SpecAgg == InitAgg /\ [][AGG_Next]_vars

\* the handler of a request runs on whenever it can take a step
SpecAggFair == InitAgg /\ [][AGG_Next]_vars /\ WF_vars(AGG_Next)

\* one instant in its three encodings goes through the three readers
InitTs == TS_Start /\ FAS_Idle /\ CA_Idle /\ AGG_Idle /\ TB_Idle
    /\ UP_Idle /\ SUG_Idle /\ AC_Idle /\ CM_Idle

SpecTs == InitTs /\ [][TS_Next]_vars

\* the Thunderbird reader builds the events of the rows one query fetched
InitTb == TB_Start /\ FAS_Idle /\ CA_Idle /\ AGG_Idle /\ TS_Idle
    /\ UP_Idle /\ SUG_Idle /\ AC_Idle /\ CM_Idle

SpecTb == InitTb /\ [][TB_Next]_vars

\* one screenshot with time slots is uploaded
InitUp ==
    UP_Start /\ FAS_Idle /\ CA_Idle /\ AGG_Idle /\ TS_Idle /\ TB_Idle
    /\ SUG_Idle /\ AC_Idle /\ CM_Idle

SpecUp == InitUp /\ [][UP_Next]_vars

\* suggest_times runs find_available_slots on the range of one request
InitSuggest ==
    SUG_Start /\ CA_Idle /\ AGG_Idle /\ TS_Idle /\ TB_Idle /\ UP_Idle
    /\ AC_Idle /\ CM_Idle

SpecSuggest == InitSuggest /\ [][FAS_Next]_vars

\* one clipboard image with time slots is analysed
InitClipboard ==
    AC_Start /\ FAS_Idle /\ CA_Idle /\ AGG_Idle /\ TS_Idle /\ TB_Idle
    /\ UP_Idle /\ SUG_Idle /\ CM_Idle

SpecClipboard == InitClipboard /\ [][AC_Next]_vars

\* the clipboard monitor is started and stopped while the clipboard changes
InitMonitor ==
    CM_Start /\ FAS_Idle /\ CA_Idle /\ AGG_Idle /\ TS_Idle /\ TB_Idle
    /\ UP_Idle /\ SUG_Idle /\ AC_Idle

SpecMonitor == InitMonitor /\ [][CM_Next]_vars

\* while a monitor thread can take a step, one is taken: the threads are
\* scheduled, the clipboard read and the post return
SpecMonitorFair == InitMonitor /\ [][CM_Next]_vars /\ WF_vars(CM_Thread)

----------------------------------------------------------------------------
\* Properties of find_available_slots

SlotSet == {available_slots[i] : i \in 1..Len(available_slots)}

EventSet == {fas_events[i] : i \in 1..Len(fas_events)}

\* C2: no slot of the result overlaps any input event under the half-open
\* rule slot.start < event.end and slot.end > event.start.
C2_NoSlotOverlapsEvent ==
    \A s \in SlotSet : \A ev \in EventSet :
        ~(s.start < ev[2] /\ s.end > ev[1])

\* C2 witness: the scan has returned, and a slot was emitted right at the
\* end of a busy period the cursor had to skip.
C2_Witness ==
    /\ fas_pc = "done"
    /\ \E s \in SlotSet : \E ev \in EventSet :
          ev[1] < ev[2] /\ s.start = ev[2] /\ s.end > s.start

\* the working window of the calendar day instant t lies on
WithinWorkingDay(s) ==
    /\ s.start >= ReplaceHour(s.start, start_hour)
    /\ s.end <= ReplaceHour(s.start, end_hour)
    /\ s.start < ReplaceHour(s.start, end_hour)
    /\ weekday(s.start) < 5

\* C3: every slot of the result starts at or after start_hour and ends at
\* or before end_hour of one calendar day, starts strictly before end_hour,
\* and that day is neither Saturday nor Sunday.
C3_SlotInsideWorkingHours ==
    fas_pc = "done" => \A s \in SlotSet : WithinWorkingDay(s)

\* C4: after a free slot [cursor, cursor + duration) is emitted, the next
\* candidate starts exactly at cursor + duration (slots are back to back).
C4_NextCandidateBackToBack ==
    [][FAS_ScanEmit => slot_start' = slot_start + duration]_vars

\* C5: in every iteration of the per-day scan the cursor slot_start strictly
\* increases, for every duration and every event list.
C5_CursorStrictlyIncreases ==
    [][(FAS_ScanConflict \/ FAS_ScanEmit) => slot_start' > slot_start]_vars

\* C6: when duration_minutes <= 0 or start_hour >= end_hour the returned
\* list is empty.
C6_DegenerateInputGivesEmpty ==
    (fas_pc = "done" /\ (duration <= 0 \/ start_hour >= end_hour))
        => available_slots = <<>>

\* C7: the returned list is sorted ascending by slot start: of two
\* consecutive slots the earlier one starts strictly before the later one.
C7_ResultSortedByStart ==
    fas_pc = "done" =>
        \A i \in 1..(Len(available_slots) - 1) :
            available_slots[i].start < available_slots[i + 1].start

\* C7 witness: a returned list that holds slots of two different days.
C7_Witness ==
    /\ fas_pc = "done"
    /\ \E i \in 1..(Len(available_slots) - 1) :
          available_slots[i].start \div MinutesPerDay
              < available_slots[i + 1].start \div MinutesPerDay

----------------------------------------------------------------------------
\* Properties of check_availability

\* the slots whose loop iteration has completed
CheckedSlots == {time_slots[k] : k \in 1..(ca_i - 1)}

CaEventSet == {ca_events[j] : j \in 1..Len(ca_events)}

ListedIn(entry, ev) ==
    \E c \in 1..Len(entry.conflicts) :
        /\ entry.conflicts[c].title = ev.title
        /\ entry.conflicts[c].start = ev.start
        /\ entry.conflicts[c].end = ev.end

\* C1: for every checked window W and every event E, E is listed among W's
\* conflicts if and only if W.start < E.end and W.end > E.start; an event
\* that only touches the window (W.end = E.start or E.end = W.start) is
\* not listed.
C1_ConflictIffHalfOpenOverlap ==
    \A slot \in CheckedSlots :
        LET entry == availability_results[SlotKey(slot)]
        IN  ~entry.error =>
              \A ev \in CaEventSet :
                  ListedIn(entry, ev)
                      <=> (entry.start < ev.end /\ entry.end > ev.start)

\* C1 witness: a returned result where one window has an overlapping event
\* listed and a window that ends where an event starts lists nothing.
C1_Witness ==
    /\ ca_pc = "done"
    /\ \E slot \in CheckedSlots : \E ev \in CaEventSet :
          LET entry == availability_results[SlotKey(slot)]
          IN  ~entry.error /\ entry.end = ev.start /\ entry.start < entry.end
              /\ ev.start < ev.end /\ ~ListedIn(entry, ev)
    /\ \E slot \in CheckedSlots : \E ev \in CaEventSet :
          ListedIn(availability_results[SlotKey(slot)], ev)

\* C8 as claimed: in every result entry, also those of unparsable slots,
\* available is true if and only if the conflicts list is empty.
C8_AvailableIffNoConflicts ==
    \A key \in DOMAIN availability_results :
        availability_results[key].available
            <=> (availability_results[key].conflicts = <<>>)

\* C8 amended: in every entry of a slot that parses, available is true if
\* and only if the conflicts list is empty; the entry of a slot that cannot
\* be parsed carries the error mark, available false and no conflicts.
C8_AvailableIffNoConflictsWhenParsed ==
    \A key \in DOMAIN availability_results :
        LET entry == availability_results[key]
        IN  /\ ~entry.error => (entry.available <=> entry.conflicts = <<>>)
            /\ entry.error => (~entry.available /\ entry.conflicts = <<>>)

\* C8 witness: a returned result holding a free window, a window with a
\* conflict and a slot that could not be parsed.
C8_Witness ==
    /\ ca_pc = "done"
    /\ \E key \in DOMAIN availability_results :
          availability_results[key].error
    /\ \E key \in DOMAIN availability_results :
          availability_results[key].available
    /\ \E key \in DOMAIN availability_results :
          availability_results[key].conflicts # <<>>

\* C9: a window whose end is not after its start is rejected as invalid:
\* its entry carries the error mark, without conflicts or a verdict.
C9_InvertedWindowRejected ==
    \A slot \in CheckedSlots :
        LET w == parse_time_slot(slot)
        IN  (w.ok /\ w.end <= w.start)
                => availability_results[SlotKey(slot)].error

----------------------------------------------------------------------------
\* Properties of the event gathering

\* the positions of the loop's list whose fetch fails: the provider call
\* raises or the calendar id is malformed
FailedCalendars ==
    {k \in 1..Len(selected_calendars) :
        RouteFetch(route, selected_calendars[k]).kind = "raise"}

\* the events the calendars that do not fail return
HealthyEvents ==
    UNION { {RouteFetch(route, selected_calendars[k]).events[j] :
                j \in 1..Len(RouteFetch(route, selected_calendars[k]).events)} :
            k \in (1..Len(selected_calendars)) \ FailedCalendars }

\* the events the finished call has gathered for its answer
GatheredIds ==
    IF route = "events"
    THEN {agg_response[j].id : j \in 1..Len(agg_response)}
    ELSE {all_events[j].id : j \in 1..Len(all_events)}

\* C10: when the fetch of one selected calendar fails (it raises, or its id
\* is malformed), an accepted call still completes, and its result holds
\* every event the other calendars returned; for /events, the availability
\* check and the slot suggestion alike.
C10_FailedSourceDoesNotAbort ==
    (agg_pc = "done" /\ agg_status # 400 /\ FailedCalendars # {})
        => /\ agg_status = 200
           /\ \A ev \in HealthyEvents : ev.id \in GatheredIds

\* the provider function of get_events meets a failing backend and returns
\* [] instead of raising: Google API error, Microsoft non-200 answer or
\* exception, Thunderbird database error
BackendFails(cal) ==
    LET c == EventsCalendar(cal)
    IN  \/ c.provider = "google" /\ google_token /\ c.id \in broken
        \/ c.provider = "microsoft" /\ microsoft_token /\ c.id \in broken
        \/ c.provider = "thunderbird" /\ <<"thunderbird-db">> \in broken

\* the positions of the loop's list whose source fails, by an exception
\* or by a failure the provider function swallows
FailedSources ==
    FailedCalendars
        \cup {k \in 1..Len(selected_calendars) :
                 BackendFails(selected_calendars[k])}

\* the entries of the JSON body of /events that report a source error
SourceErrors ==
    {j \in 1..Len(agg_response) : "error" \in DOMAIN agg_response[j]}

\* C11: when exactly one of the queried sources fails and the others
\* succeed, the answer of /events reports exactly one source error, next
\* to the healthy sources' events.
C11_OneFailureOneSourceError ==
    (agg_pc = "done" /\ route = "events" /\ agg_status = 200
        /\ Cardinality(FailedSources) = 1)
        => Cardinality(SourceErrors) = 1

\* C12: the merged event list never holds two events with the same
\* (calendar id, event id) pair, also when several selected calendars are
\* served from the same Thunderbird database.
C12_NoDuplicateEvents ==
    agg_pc = "done" =>
        \A i, j \in 1..Len(all_events) :
            i < j => ~(/\ all_events[i].calendar_id = all_events[j].calendar_id
                       /\ all_events[i].id = all_events[j].id)

\* C13: also when one calendar source never answers its fetch, the
\* aggregation that has started to query the sources eventually completes:
\* a non-responding source cannot block the call forever.
C13_AggregationCompletes == (agg_pc = "gather") ~> (agg_pc = "done")

----------------------------------------------------------------------------
\* Properties of the timestamp conversions

\* C14: the same instant given as epoch microseconds, as ISO-8601 text
\* ending in Z and as ISO-8601 text with an offset is normalized to equal
\* start values by microseconds_to_datetime, parse_time_slot and the
\* provider parsers.
C14_EncodingsNormalizeEqual ==
    ts_done = Conversions =>
        /\ start_thunderbird.ok
        /\ \A k \in 1..2 : /\ start_slot[k] = start_thunderbird
                            /\ start_provider[k] = start_thunderbird

----------------------------------------------------------------------------
\* Properties of the Thunderbird event construction

\* the row an event dictionary was built from
RowOf(ev) == CHOOSE row \in RowChoices : <<"thunderbird", row.id>> = ev.id

InstantOf(text) == fromisoformat(text).s

\* C17: every event the Thunderbird reader puts in its result satisfies
\* start < end: a row whose end is not after its start is dropped.
C17_EventsStartBeforeEnd ==
    \A k \in 1..Len(tb_results) :
        InstantOf(tb_results[k].start) < InstantOf(tb_results[k].end)

----------------------------------------------------------------------------
\* Properties of upload_screenshot

\* C16: the year of a parsed time slot is never rewritten: the window that
\* is checked for conflicts has the year, day and time of the slot that was
\* parsed, whatever year the events or the current date have.
C16_SlotYearNeverRewritten ==
    \A k \in 1..Len(up_time_slots) :
        /\ up_time_slots[k].year = parsed_slots[k].year
        /\ up_time_slots[k].start = parsed_slots[k].start
        /\ up_time_slots[k].end = parsed_slots[k].end

----------------------------------------------------------------------------
\* Properties of the requests of the POST routes

\* a request of a POST route with an invalid shape: no time_slots or
\* date_range in the body, no selected calendar, or a range whose end is
\* not after its start
InvalidRequest ==
    /\ route # "events"
    /\ \/ ~request_ok
       \/ selected_calendars = <<>>
       \/ req_end <= req_start

\* C18: a request with an invalid shape is rejected before any calendar
\* source is queried: no provider fetch happens on such a request.
C18_InvalidShapeNeverFetches == [][InvalidRequest => ~AGG_Fetch]_vars

----------------------------------------------------------------------------
\* Properties of suggest_times

\* the calendar day an instant lies on
DayOf(t) == t \div MinutesPerDay

\* C19: every free slot returned for a requested date range lies on a
\* calendar day between the day of the range's start and the day of the
\* range's end, inclusive.
C19_SlotsWithinRequestedDays ==
    (fas_pc = "done" /\ parse_time_slot(date_range).ok) =>
        \A k \in 1..Len(available_slots) :
            /\ DayOf(parse_time_slot(date_range).start)
                   <= DayOf(available_slots[k].start)
            /\ DayOf(available_slots[k].start)
                   <= DayOf(parse_time_slot(date_range).end)

----------------------------------------------------------------------------
\* Provenance of the answer of /events

\* the ids of the events the queried calendars returned
SourceEventIds ==
    UNION { {RouteFetch(route, selected_calendars[k]).events[j].id :
                j \in 1..Len(RouteFetch(route, selected_calendars[k]).events)} :
            k \in 1..Len(selected_calendars) }

\* C20: every event of the list returned to the caller was returned by one
\* of the queried calendar sources; the system itself never adds an event.
C20_OnlySourceEvents ==
    (agg_pc = "done" /\ route = "events" /\ agg_status = 200) =>
        \A j \in 1..Len(agg_response) : agg_response[j].id \in SourceEventIds

----------------------------------------------------------------------------
\* Outcome of the availability routes

\* C21: a request to /availability that carries time slots and names at
\* least one selected calendar ends with a per-window availability result,
\* never with an unhandled error.
C21_AvailabilityRequestAnswers ==
    (agg_pc = "done" /\ route = "availability" /\ request_ok
        /\ selected_calendars # <<>>
        /\ \A k \in 1..Len(selected_calendars) :
               RouteFetch(route, selected_calendars[k]).kind # "raise") =>
        (agg_status = 200 /\ agg_error = "none")

----------------------------------------------------------------------------
\* The cursor after a rejected candidate

\* C22: when the candidate at the cursor overlaps a busy period, the next
\* candidate starts exactly at the end of the earliest-starting overlapping
\* period, with no step added, also when that end is the end of the rejected
\* candidate.
C22_CursorMovesToBusyEnd ==
    [][FAS_ScanConflict =>
        slot_start' = busy_periods[FirstConflict(busy_periods, slot_start,
                                       slot_start + duration)][2]]_vars

----------------------------------------------------------------------------
\* Size of the mapping check_availability returns

\* C29: the mapping returned by check_availability has exactly one entry per
\* input time slot, also when two slots carry the same start and end strings.
C29_OneEntryPerSlot ==
    (ca_pc = "done") =>
        Cardinality(DOMAIN availability_results) = Len(time_slots)

----------------------------------------------------------------------------
\* Calendars of the rows get_thunderbird_events returns

\* the cal_id of a Thunderbird event: its calendar without the prefix
CalIdOf(event) == Tail(event.calendar_id)

\* C30: every event get_thunderbird_events returns for a requested calendar
\* id belongs to that calendar; rows of calendars that were not requested
\* are never returned.
C30_OnlyRequestedCalendars ==
    \A k \in 1..(agg_i - 1) :
        LET parts == selected_calendars[k].parts
            events == get_thunderbird_events(parts)
        IN  StartsWith(parts, "thunderbird") =>
                \A j \in 1..Len(events) :
                    CalIdOf(events[j]) = CleanThunderbirdId(parts)

----------------------------------------------------------------------------
\* The overlap test of analyze_clipboard and find_alternative_slots

\* the events that overlap a slot under the half-open rule
HalfOpenConflicts(slot, events) ==
    SelectSeq(events, LAMBDA event :
        HalfOpenOverlap(slot.start_time, slot.end_time,
                        event.start, event.end))

\* C23: the three-case overlap test gives the same verdict as the half-open
\* rule for every window and every event, events of zero length included:
\* every slot analyze_clipboard has tested is available exactly when no
\* fetched event overlaps it under the half-open rule, and the alternative
\* slots are the ones free under the half-open rule.
C23_ThreeCaseIsHalfOpen ==
    /\ \A k \in 1..(ac_i - 1) :
           ac_time_slots[k].available =
               (Len(HalfOpenConflicts(ac_time_slots[k], ac_all_events)) = 0)
    /\ (ac_pc = "done" /\ ~is_suggestion) =>
           \A k \in 1..Len(suggested_slots) :
               Len(HalfOpenConflicts(suggested_slots[k], ac_all_events)) = 0

----------------------------------------------------------------------------
\* The range analyze_clipboard fetches

\* C24: the range passed to the calendar sources contains every candidate
\* slot, so a slot is never reported available while the selected calendar
\* holds an event that overlaps it.
C24_FetchedRangeCoversSlots ==
    \A k \in 1..(ac_i - 1) :
        ac_time_slots[k].available =>
            Len(ClipboardConflicts(ac_time_slots[k], ac_calendar)) = 0

----------------------------------------------------------------------------
\* The clipboard monitor: threads, flag and posts

AliveThreads == {t \in Threads : is_alive(t)}

\* C25: under any interleaving of concurrent calls to
\* start_clipboard_monitor_thread at most one monitor thread is alive.
C25_AtMostOneMonitorThread == Cardinality(AliveThreads) <= 1

\* C26: once a call of start_clipboard_monitor_thread that was the last call
\* made has returned, monitoring is running: a monitor thread is alive and
\* is_monitoring is true, until the next stop.
C26_RunningAfterStart ==
    (cm_last = "start" /\ Starting = 0) =>
        (is_monitoring /\ AliveThreads # {})

\* a thread ends the iteration it was in and begins another one
BeginsIteration(t) == cm_threads[t].pc = "test" /\ cm_threads'[t].pc = "grab"

\* C27: after stop_clipboard_monitor_thread, with no start following, no
\* monitor thread begins another iteration (so no image is sent after the
\* iteration in progress), and every monitor thread eventually ends.
C27_StoppedMonitorEnds ==
    /\ [][cm_last = "stop" => \A t \in Threads : ~BeginsIteration(t)]_vars
    /\ (cm_last = "stop") ~> (AliveThreads = {} \/ cm_last # "stop")

\* a stop was the last call and a thread that was monitoring has ended
C27_Witness ==
    /\ cm_last = "stop"
    /\ \E t \in Threads : cm_threads[t].pc = "ended" /\ cm_posted[t] = 1

\* C28 as stated: while the clipboard content does not change the image is
\* posted at most once, here by monitor threads that ran one after the
\* other.
C28_PostedOncePerContent ==
    \A t, u \in Threads :
        (t # u /\ cm_threads[t].alone /\ cm_threads[u].alone) =>
            ~(cm_posted[t] >= 1 /\ cm_posted[u] >= 1)

\* C28, amended: one run of monitor_clipboard posts an image only when its
\* hash differs from the hash that run saw last; while the clipboard
\* content does not change a monitor thread posts the image at most once,
\* also when that post failed.
C28_PostedOncePerThread ==
    \A t \in Threads : cm_posted[t] <= 1

\* a thread whose post failed meets the same image again
C28_Witness ==
    \E t \in Threads :
        /\ cm_threads[t].pc = "grab"
        /\ cm_threads[t].post_failed
        /\ clipboard = cm_threads[t].last_image_hash
        /\ cm_posted[t] = 1

====
